---------------------------- MODULE Spec2Model ----------------------------
(***************************************************************************)
(* A model of the strategy backtesting engine (backtesting_engine.py):     *)
(* BacktestingEngine.__init__, load_data, _calculate_rsi, run_strategy and *)
(* calculate_metrics.                                                       *)
(*                                                                         *)
(* Numbers.  Closes, cash and share counts are integers.  Every derived    *)
(* float of the code is held exactly, as a reduced fraction (Num), with    *)
(* the IEEE values NaN and +/-inf as separate kinds, so that a comparison  *)
(* with NaN is false as it is in the code.  Two values are not rational:   *)
(* the Bollinger bands (mean +/- 2 standard deviations), held as the pair  *)
(* (mean, variance) and compared by squaring, and the MACD columns, whose  *)
(* exact denominators (13^i * 27^i * 5^i) leave the integer range after    *)
(* three bars and which are therefore held in fixed point, FixedScale      *)
(* units per rupee, rounded down at every step of the recurrence.          *)
(***************************************************************************)
EXTENDS Integers, Sequences, FiniteSets, TLC

VARIABLES
    feed,             \* the closes the data source hands to load_data
    initial_capital,  \* self.initial_capital
    data,             \* self.data: whether it is loaded, and its Close column
    trades,           \* self.trades: the trade ledger
    equity_curve,     \* self.equity_curve
    strategy_name,    \* the strategy of the run in progress / last run
    position,         \* run_strategy local: 0 = no position, 1 = long
    entry_price,      \* run_strategy local
    shares,           \* run_strategy local
    capital,          \* run_strategy local: cash
    i,                \* run_strategy local: the loop index (0-based bar index)
    buy_signal,       \* run_strategy local, set afresh for every bar
    sell_signal,      \* run_strategy local, set afresh for every bar
    pc,               \* "idle" | "loop" | "returned"
    raised,           \* the exception the last call surfaced ("" for none)
    metrics,          \* what the last calculate_metrics call did
    params,           \* the keyword overrides of the run in progress / last run
    runs,             \* number of run_strategy calls made on this engine
    observed,         \* what the caller got back from each run + metrics pair
    engines,          \* two more engine objects, run side by side: their fields
    curves,           \* the equity_curve list objects these engines append to
    alerts,           \* AlertsSystem: self.alerts
    triggered_alerts, \* AlertsSystem: self.triggered_alerts
    alert_call,       \* AlertsSystem: the last call made, its inputs and its result
    is_running,       \* RealTimeDataFeed: self.is_running
    data_queue,       \* RealTimeDataFeed: the items put on self.data_queue
    websocket,        \* RealTimeDataFeed: self.websocket
    delivered,        \* RealTimeDataFeed: the items handed to the callbacks
    threads           \* RealTimeDataFeed: where the caller and the two threads are

\* one engine object and the locals of its run
engineVars == <<feed, initial_capital, data, trades, equity_curve, strategy_name,
                position, entry_price, shares, capital, i, buy_signal, sell_signal,
                pc, raised, metrics, params, runs, observed>>
\* the engine objects run side by side
pairVars == <<engines, curves>>
\* the alerts system
alertVars == <<alerts, triggered_alerts, alert_call>>
\* the real-time data feed
feedVars == <<is_running, data_queue, websocket, delivered, threads>>
\* everything but the one engine, but the engines side by side, but the alerts
\* system, but the data feed
outsideEngine == <<pairVars, alertVars, feedVars>>
outsidePair == <<engineVars, alertVars, feedVars>>
outsideAlerts == <<engineVars, pairVars, feedVars>>
outsideFeed == <<engineVars, pairVars, alertVars>>

vars == <<engineVars, pairVars, alertVars, feedVars>>

-----------------------------------------------------------------------------
(* Bounds of the model *)

\* longest free-form tail appended to the constant lead-in of a bar series
MaxTail == 3
\* run_strategy calls made on one engine object
MaxRuns == 2
\* fixed-point units per rupee of the MACD columns
FixedScale == 10000
\* shortest rising series of the scenario runs
ScenarioLen == 60

-----------------------------------------------------------------------------
(* Program constants *)

MA_SHORT_WINDOW == 20
MA_LONG_WINDOW == 50
RSI_PERIOD == 14
MACD_FAST == 12
MACD_SLOW == 26
MACD_SIGNAL_SPAN == 9
BB_WINDOW == 20
BB_K == 2
DEFAULT_OVERSOLD == 30
DEFAULT_OVERBOUGHT == 70
DEFAULT_CAPITAL == 100000

Strategies == {"MA_CROSSOVER", "RSI_OVERSOLD", "MACD_CROSSOVER", "BOLLINGER_BANDS"}

-----------------------------------------------------------------------------
(* Floats: exact fractions, NaN and the infinities *)

Abs(x) == IF x < 0 THEN -x ELSE x

RECURSIVE GCD(_, _)
GCD(a, b) == IF b = 0 THEN a ELSE GCD(b, a % b)

NaN == [k |-> "nan", n |-> 0, d |-> 1]
Inf(s) == [k |-> "inf", n |-> s, d |-> 1]

\* the float n / d
Rat(n, d) ==
    IF d = 0
    THEN IF n = 0 THEN NaN ELSE Inf(IF n > 0 THEN 1 ELSE -1)
    ELSE LET g == GCD(Abs(n), Abs(d))
             s == IF d < 0 THEN -1 ELSE 1
         IN  [k |-> "num", n |-> (s * n) \div g, d |-> (s * d) \div g]

Num(x) == [k |-> "num", n |-> x, d |-> 1]

IsNum(a) == a.k = "num"
IsNaN(a) == a.k = "nan"

Sub(a, b) ==
    IF IsNum(a) /\ IsNum(b) THEN Rat(a.n * b.d - b.n * a.d, a.d * b.d)
    ELSE IF IsNaN(a) \/ IsNaN(b) THEN NaN
    ELSE IF IsNum(a) THEN Inf(-b.n)
    ELSE IF IsNum(b) THEN a
    ELSE IF a.n = b.n THEN NaN ELSE a

Add(a, b) ==
    IF IsNum(a) /\ IsNum(b) THEN Rat(a.n * b.d + b.n * a.d, a.d * b.d)
    ELSE IF IsNaN(a) \/ IsNaN(b) THEN NaN
    ELSE IF IsNum(a) THEN b
    ELSE IF IsNum(b) THEN a
    ELSE IF a.n = b.n THEN a ELSE NaN

Sign(x) == IF x > 0 THEN 1 ELSE IF x < 0 THEN -1 ELSE 0

Mul(a, b) ==
    IF IsNum(a) /\ IsNum(b) THEN Rat(a.n * b.n, a.d * b.d)
    ELSE IF IsNaN(a) \/ IsNaN(b) THEN NaN
    ELSE IF Sign(a.n) * Sign(b.n) = 0 THEN NaN
    ELSE Inf(Sign(a.n) * Sign(b.n))

\* a / b for a float a and an integer count b > 0
DivInt(a, b) == IF IsNum(a) THEN Rat(a.n, a.d * b) ELSE a

\* a plausible slip: a missing value compared as if it were 0 (fillna(0))
LtNaNAsZero(a, b) ==
    IF (IsNum(a) \/ IsNaN(a)) /\ (IsNum(b) \/ IsNaN(b)) THEN a.n * b.d < b.n * a.d
    ELSE IF IsNum(a) \/ IsNaN(a) THEN b.n > 0
    ELSE IF IsNum(b) \/ IsNaN(b) THEN a.n < 0
    ELSE a.n < b.n

\* IEEE comparisons: every comparison with NaN is false
Lt(a, b) ==
    /\ ~IsNaN(a) /\ ~IsNaN(b)
    /\ IF IsNum(a) /\ IsNum(b) THEN a.n * b.d < b.n * a.d
       ELSE IF IsNum(a) THEN b.n > 0
       ELSE IF IsNum(b) THEN a.n < 0
       ELSE a.n < b.n
Gt(a, b) == Lt(b, a)
\* a plausible slip: a <= b written as "not a > b", which is true of a missing value
LeOrUnordered(a, b) == ~Lt(b, a)
Le(a, b) == ~IsNaN(a) /\ ~IsNaN(b) /\ ~Lt(b, a)
Ge(a, b) == Le(b, a)

-----------------------------------------------------------------------------
(* load_data: the indicator columns.  Bar j (0-based) of a column col is   *)
(* At(col, j).                                                              *)

At(col, j) == col[j + 1]

RECURSIVE SumOver(_, _, _)
\* sum of f[a..b] (1-based, inclusive), by halves
SumOver(f, a, b) ==
    IF a > b THEN 0
    ELSE IF a = b THEN f[a]
    ELSE LET m == (a + b) \div 2 IN SumOver(f, a, m) + SumOver(f, m + 1, b)

\* a plausible slip: rolling(window=w, center=True), whose window reaches
\* (w - 1) \div 2 bars ahead of the bar it labels
RollingMeanCentered(xs, w) ==
    [j \in 1..Len(xs) |->
        LET e == j + (w - 1) \div 2
        IN  IF e < w \/ e > Len(xs) THEN NaN ELSE Rat(SumOver(xs, e - w + 1, e), w)]

\* Series.rolling(window=w).mean(): NaN until w observations are in the window
RollingMean(xs, w) ==
    [j \in 1..Len(xs) |->
        IF j < w THEN NaN ELSE Rat(SumOver(xs, j - w + 1, j), w)]

\* Series.rolling(window=w).std() squared: the sample variance (ddof = 1)
RollingVar(xs, w) ==
    [j \in 1..Len(xs) |->
        IF j < w THEN NaN
        ELSE LET S == SumOver(xs, j - w + 1, j)
                 Q == SumOver([m \in 1..Len(xs) |-> xs[m] * xs[m]], j - w + 1, j)
             IN  Rat(w * Q - S * S, w * (w - 1))]

\* prices.diff(): NaN at bar 0.  delta.where(delta > 0, 0) and
\* -delta.where(delta < 0, 0) both replace that NaN by 0.
GainRaw(prices) ==
    [j \in 1..Len(prices) |->
        IF j = 1 THEN 0
        ELSE IF prices[j] - prices[j - 1] > 0 THEN prices[j] - prices[j - 1] ELSE 0]
LossRaw(prices) ==
    [j \in 1..Len(prices) |->
        IF j = 1 THEN 0
        ELSE IF prices[j] - prices[j - 1] < 0 THEN prices[j - 1] - prices[j] ELSE 0]

\* a plausible slip: the RSI of a full window without any price change taken as 0
CalculateRSIZeroFilled(prices, period) ==
    [j \in 1..Len(prices) |->
        IF j < period THEN NaN
        ELSE LET G == SumOver(GainRaw(prices), j - period + 1, j)
                 L == SumOver(LossRaw(prices), j - period + 1, j)
             IN  IF G + L = 0 THEN Num(0) ELSE Rat(100 * G, G + L)]

\* _calculate_rsi: rs = gain / loss, rsi = 100 - 100 / (1 + rs).
\* With G and L the window sums: loss = 0 < gain gives rs = inf and rsi = 100,
\* gain = loss = 0 gives NaN, otherwise rsi = 100 G / (G + L).
CalculateRSI(prices, period) ==
    [j \in 1..Len(prices) |->
        IF j < period THEN NaN
        ELSE LET G == SumOver(GainRaw(prices), j - period + 1, j)
                 L == SumOver(LossRaw(prices), j - period + 1, j)
             IN  Rat(100 * G, G + L)]

RECURSIVE EwmFrom(_, _, _, _, _)
\* the averages of xs[a..b] that follow the average e0 of xs[a - 1], by halves:
\* e[j] = alpha x[j] + (1 - alpha) e[j-1], alpha = 2 / (span + 1)
EwmFrom(xs, span, a, b, e0) ==
    IF a > b THEN <<>>
    ELSE IF a = b THEN <<(2 * xs[a] + (span - 1) * e0) \div (span + 1)>>
    ELSE LET m     == (a + b) \div 2
             left  == EwmFrom(xs, span, a, m, e0)
             right == EwmFrom(xs, span, m + 1, b, left[Len(left)])
         IN  left \o right

\* Series.ewm(span, adjust=False).mean() of the fixed-point series xs: e[1] = x[1]
Ewm(xs, span) ==
    IF xs = <<>> THEN <<>> ELSE <<xs[1]>> \o EwmFrom(xs, span, 2, Len(xs), xs[1])

\* A Bollinger band: BB_middle + k * bb_std, held as (mean, variance, k)
Band(mid, var, k) == [mid |-> mid, var |-> var, k |-> k]

\* price <= band, for the lower band (k < 0):  mid - price >= |k| * std
PriceLeBand(price, b) ==
    /\ IsNum(b.mid) /\ IsNum(b.var)
    /\ LET diff == Sub(b.mid, Num(price))
       IN  /\ Ge(diff, Num(0))
           /\ Ge(Mul(diff, diff), Mul(Num(b.k * b.k), b.var))

\* price >= band, for the upper band (k > 0):  price - mid >= k * std
PriceGeBand(price, b) ==
    /\ IsNum(b.mid) /\ IsNum(b.var)
    /\ LET diff == Sub(Num(price), b.mid)
       IN  /\ Ge(diff, Num(0))
           /\ Ge(Mul(diff, diff), Mul(Num(b.k * b.k), b.var))

\* self.data before load_data: None
NoData == [loaded |-> FALSE, Close |-> <<>>]

\* the frame load_data builds from the closes it fetched: the indicator columns
\* are functions of the Close column, which nothing changes after the load
LoadedFrame(closes) ==
    LET fx     == [j \in 1..Len(closes) |-> closes[j] * FixedScale]
        exp1   == Ewm(fx, MACD_FAST)
        exp2   == Ewm(fx, MACD_SLOW)
        macd   == [j \in 1..Len(closes) |-> exp1[j] - exp2[j]]
        sig    == Ewm(macd, MACD_SIGNAL_SPAN)
        mid    == RollingMean(closes, BB_WINDOW)
        var    == RollingVar(closes, BB_WINDOW)
    IN  [loaded      |-> TRUE,
         Close       |-> closes,
         MA20        |-> RollingMean(closes, MA_SHORT_WINDOW),
         MA50        |-> RollingMean(closes, MA_LONG_WINDOW),
         RSI         |-> CalculateRSI(closes, RSI_PERIOD),
         MACD        |-> [j \in 1..Len(closes) |-> Num(macd[j])],
         MACD_signal |-> [j \in 1..Len(closes) |-> Num(sig[j])],
         BB_upper    |-> [j \in 1..Len(closes) |-> Band(mid[j], var[j], BB_K)],
         BB_lower    |-> [j \in 1..Len(closes) |-> Band(mid[j], var[j], -BB_K)]]

-----------------------------------------------------------------------------
(* The inputs: bar series, capitals, strategy names, overrides *)

\* close prices of the bars of the tail: a fall and a rise from the lead-in
Prices == {4, 20}
\* the close of the constant lead-in
LeadPrice == 10
\* lengths of the lead-in: one bar, and each indicator's window
LeadLens == {1, RSI_PERIOD, BB_WINDOW, MA_LONG_WINDOW}

RECURSIVE SeqsUpTo(_, _)
\* the sequences over S of length <= n
SeqsUpTo(S, n) ==
    IF n = 0 THEN {<<>>}
    ELSE LET shorter == SeqsUpTo(S, n - 1)
         IN  shorter \cup {Append(t, x) : t \in {u \in shorter : Len(u) = n - 1}, x \in S}

\* a constant lead-in followed by a free tail; and the empty series
BarSeries ==
    {<<>>} \cup
    {[j \in 1..a |-> LeadPrice] \o t : a \in LeadLens, t \in SeqsUpTo(Prices, MaxTail)}

\* closes no market has: the engine is handed them unchecked
NonPositivePrices == {0, -4}
\* a short constant lead-in, then one non-positive close
MalformedSeries ==
    {[j \in 1..a |-> LeadPrice] \o <<q>> : a \in {1, RSI_PERIOD}, q \in NonPositivePrices}

\* every series the data source may hand over
Feeds == BarSeries \cup MalformedSeries

\* a strictly increasing series: start, start + step, start + 2 step, ...
Rising(start, step, len) == [j \in 1..len |-> start + step * (j - 1)]
RisingSeries ==
    {Rising(start, step, len) :
        start \in {1, 5}, step \in {1, 2}, len \in {ScenarioLen, ScenarioLen + 1}}
\* one jump of the close over two bars
JumpSeries == <<100, 110>>
\* an override of both windows of MA_CROSSOVER, short_ma < long_ma
WindowOverride ==
    [key \in {"short_ma", "long_ma"} |-> IF key = "short_ma" THEN 10 ELSE 30]
\* a constant lead-in of long_ma bars, then a rise and a fall: the short_ma-bar
\* average of the closes crosses the long_ma-bar average upwards, then downwards
CrossingSeries == [j \in 1..WindowOverride["long_ma"] |-> LeadPrice] \o <<20, 4, 4>>
\* the series of the scenario runs
ScenarioSeries == RisingSeries \cup {JumpSeries, CrossingSeries}

\* the frames load_data builds, one per series, each computed once
Frames == [closes \in Feeds \cup ScenarioSeries |-> LoadedFrame(closes)]

\* the series that end where a longer series of S goes on: its first n bars
Prefixes(S) == UNION {{SubSeq(closes, 1, n) : n \in 1..Len(closes)} : closes \in S}
\* the frames load_data builds when the data source stops at such a bar
PrefixFrames == [closes \in Prefixes(Feeds) |-> LoadedFrame(closes)]

Capitals == {-100, 0, 15, 100}

UnknownStrategy == "BUY_AND_HOLD"
StrategyNames == Strategies \cup {UnknownStrategy}

EmptyParams == [key \in {} |-> 0]
ParamChoices == {EmptyParams}
\* the overrides of the scenario runs: none, the defaults spelled out, and
\* other windows
ScenarioParams ==
    {EmptyParams,
     [key \in {"short_ma", "long_ma"} |->
         IF key = "short_ma" THEN MA_SHORT_WINDOW ELSE MA_LONG_WINDOW],
     WindowOverride}

\* params.get(key, default)
Get(p, key, default) == IF key \in DOMAIN p THEN p[key] ELSE default

-----------------------------------------------------------------------------
(* run_strategy *)

\* the indicator test of each strategy's first if (lines 107, 118, 130, 137)
BuyLevel(d, s, p, j) ==
    IF s = "MA_CROSSOVER" THEN
        LET short_ma   == Get(p, "short_ma", MA_SHORT_WINDOW)
            shortcol   == IF short_ma = MA_SHORT_WINDOW THEN d.MA20 ELSE d.MA50
            prev_short == At(shortcol, j - 1)
            curr_short == At(shortcol, j)
            prev_long  == At(d.MA50, j - 1)
            curr_long  == At(d.MA50, j)
        IN  Le(prev_short, prev_long) /\ Gt(curr_short, curr_long)
    ELSE IF s = "RSI_OVERSOLD" THEN
        Lt(At(d.RSI, j), Num(Get(p, "oversold", DEFAULT_OVERSOLD)))
    ELSE IF s = "MACD_CROSSOVER" THEN
        /\ Le(At(d.MACD, j - 1), At(d.MACD_signal, j - 1))
        /\ Gt(At(d.MACD, j), At(d.MACD_signal, j))
    ELSE IF s = "BOLLINGER_BANDS" THEN
        PriceLeBand(At(d.Close, j), At(d.BB_lower, j))
    ELSE FALSE

\* the indicator test of each strategy's elif (lines 110, 120, 133, 139)
SellLevel(d, s, p, j) ==
    IF s = "MA_CROSSOVER" THEN
        LET short_ma   == Get(p, "short_ma", MA_SHORT_WINDOW)
            shortcol   == IF short_ma = MA_SHORT_WINDOW THEN d.MA20 ELSE d.MA50
            prev_short == At(shortcol, j - 1)
            curr_short == At(shortcol, j)
            prev_long  == At(d.MA50, j - 1)
            curr_long  == At(d.MA50, j)
        IN  Ge(prev_short, prev_long) /\ Lt(curr_short, curr_long)
    ELSE IF s = "RSI_OVERSOLD" THEN
        Gt(At(d.RSI, j), Num(Get(p, "overbought", DEFAULT_OVERBOUGHT)))
    ELSE IF s = "MACD_CROSSOVER" THEN
        /\ Ge(At(d.MACD, j - 1), At(d.MACD_signal, j - 1))
        /\ Lt(At(d.MACD, j), At(d.MACD_signal, j))
    ELSE IF s = "BOLLINGER_BANDS" THEN
        PriceGeBand(At(d.Close, j), At(d.BB_upper, j))
    ELSE FALSE

\* a plausible slip: the first if without its "and position == 0"
BuyConditionAnyPosition(d, s, p, j, pos) == BuyLevel(d, s, p, j)

\* the first if of each strategy's branch: the indicator test "and position == 0"
BuyCondition(d, s, p, j, pos) == BuyLevel(d, s, p, j) /\ pos = 0

\* the elif of each strategy's branch: the indicator test "and position == 1"
SellCondition(d, s, p, j, pos) == SellLevel(d, s, p, j) /\ pos = 1

BuySignal(d, s, p, j, pos) == BuyCondition(d, s, p, j, pos)
SellSignal(d, s, p, j, pos) == ~BuyCondition(d, s, p, j, pos) /\ SellCondition(d, s, p, j, pos)

\* a plausible slip: the share count rounded up
IntDivCeil(a, b) == -((-a) \div b)

\* int(capital / price): truncation towards zero
IntDiv(a, b) == Sign(a) * Sign(b) * (Abs(a) \div Abs(b))

BuyTrade(date, price, n, cash) ==
    [date |-> date, type |-> "BUY", price |-> price, shares |-> n,
     value |-> n * price, capital |-> cash]

\* a plausible slip: the proceeds booked as the profit
SellTradeGrossProfit(date, price, n, entry, cash) ==
    [date |-> date, type |-> "SELL", price |-> price, shares |-> n,
     value |-> n * price,
     profit |-> n * price,
     profit_pct |-> Mul(Rat(n * price, n * entry), Num(100)),
     capital |-> cash]

\* the SELL record of lines 161-175 and 195-209
SellTrade(date, price, n, entry, cash) ==
    [date |-> date, type |-> "SELL", price |-> price, shares |-> n,
     value |-> n * price,
     profit |-> n * price - n * entry,
     profit_pct |-> Mul(Rat(n * price - n * entry, n * entry), Num(100)),
     capital |-> cash]

EquityPoint(date, equity, pos) == [date |-> date, equity |-> equity, position |-> pos]

\* the call run_strategy(s, **p) up to the loop: load_data when self.data is
\* None (it stores the fetched frame, then raises on an empty one), then the reset.
\* The caller of the model calls calculate_metrics after every run, as
\* app_ultimate.py does, and repeats a run with the same strategy and overrides.
RunStart(s, p) ==
    /\ pc \in {"idle", "returned"}
    /\ runs < MaxRuns
    /\ Len(observed) = runs
    /\ runs > 0 => (s = strategy_name /\ p = params)
    /\ runs' = runs + 1
    /\ strategy_name' = s
    /\ params' = p
    /\ data' = IF data.loaded THEN data ELSE [loaded |-> TRUE, Close |-> feed]
    /\ IF ~data.loaded /\ feed = <<>>
       THEN /\ raised' = "ValueError"
            /\ pc' = "idle"
            /\ UNCHANGED <<trades, position, entry_price, shares, capital, i>>
       ELSE /\ raised' = ""
            /\ trades' = <<>>
            /\ position' = 0
            /\ entry_price' = 0
            /\ shares' = 0
            /\ capital' = initial_capital
            /\ i' = 1
            /\ pc' = "loop"
    /\ UNCHANGED <<feed, initial_capital, equity_curve, metrics, observed,
                   buy_signal, sell_signal>>
    /\ UNCHANGED outsideEngine

\* a plausible slip: the open position left out of the equity
CashOnly(pos, cash, n, price) == cash

\* "Calculate equity": the open position valued at this bar's close
MarkToMarket(pos, cash, n, price) == IF pos = 1 THEN cash + n * price ELSE cash

\* one iteration of the loop over range(1, len(self.data)).  A close of 0 on a
\* bar whose BUY signal fires makes capital / price infinite, and int() of it
\* raises OverflowError out of run_strategy.
Step ==
    /\ pc = "loop"
    /\ i < Len(data.Close)
    /\ LET price == At(data.Close, i)
           frame == Frames[data.Close]
           buy   == BuySignal(frame, strategy_name, params, i, position)
           sell  == SellSignal(frame, strategy_name, params, i, position)
           n     == IntDiv(capital, price)
       IN  /\ buy_signal' = buy
           /\ sell_signal' = sell
           /\ IF buy /\ capital > 0 /\ price = 0
              THEN /\ raised' = "OverflowError"
                   /\ pc' = "idle"
                   /\ UNCHANGED <<entry_price, capital, position, trades, shares,
                                  equity_curve, i>>
              ELSE /\ IF buy /\ capital > 0
                      THEN /\ shares' = n
                           /\ IF n > 0
                              THEN /\ entry_price' = price
                                   /\ capital' = capital - n * price
                                   /\ position' = 1
                                   /\ trades' = Append(trades,
                                          BuyTrade(i, price, n, capital - n * price))
                              ELSE UNCHANGED <<entry_price, capital, position, trades>>
                      ELSE IF sell /\ position = 1
                      THEN /\ capital' = capital + shares * price
                           /\ trades' = Append(trades,
                                  SellTrade(i, price, shares, entry_price,
                                            capital + shares * price))
                           /\ position' = 0
                           /\ shares' = 0
                           /\ UNCHANGED entry_price
                      ELSE UNCHANGED <<entry_price, capital, position, trades, shares>>
                   /\ equity_curve' = Append(equity_curve,
                          EquityPoint(i, MarkToMarket(position', capital', shares', price),
                                      position'))
                   /\ i' = i + 1
                   /\ UNCHANGED <<pc, raised>>
    /\ UNCHANGED <<feed, initial_capital, data, strategy_name, params, metrics, runs,
                   observed>>
    /\ UNCHANGED outsideEngine

\* a plausible slip: no forced close at the end of the walk
NeverClosesAtEnd(pos) == FALSE

\* "if position == 1:" after the loop
ClosesAtEnd(pos) == pos = 1

\* after the loop: close any open position at the last close, and return
Finish ==
    /\ pc = "loop"
    /\ i >= Len(data.Close)
    /\ IF ClosesAtEnd(position)
       THEN LET final_price == At(data.Close, Len(data.Close) - 1)
            IN  /\ capital' = capital + shares * final_price
                /\ trades' = Append(trades,
                       SellTrade(Len(data.Close) - 1, final_price, shares, entry_price,
                                 capital + shares * final_price))
       ELSE UNCHANGED <<capital, trades>>
    /\ pc' = "returned"
    /\ UNCHANGED <<feed, initial_capital, data, equity_curve, strategy_name, params,
                   position, entry_price, shares, i, buy_signal, sell_signal, raised,
                   metrics, runs, observed>>
    /\ UNCHANGED outsideEngine

-----------------------------------------------------------------------------
(* calculate_metrics *)

MetricKeys == {"Initial Capital", "Final Equity", "Total Return", "Total Return %",
               "Total Trades", "Profitable Trades", "Win Rate %", "Average Profit",
               "Average Profit %", "Max Drawdown %", "Sharpe Ratio",
               "Buy & Hold Return %", "Alpha"}

\* the outcome of a call: its status and, when it returned, the dict
NoMetrics == [status |-> "not called", vals |-> [key \in {} |-> NaN]]
EmptyMetrics == [status |-> "returned", vals |-> [key \in {} |-> NaN]]
RaisedMetrics(e) == [status |-> e, vals |-> [key \in {} |-> NaN]]

SelectSells(ledger) == SelectSeq(ledger, LAMBDA t : t.type = "SELL")

RECURSIVE MaxOver(_, _, _)
\* the greatest of eq[a..b], by halves
MaxOver(eq, a, b) ==
    IF a = b THEN eq[a]
    ELSE LET m == (a + b) \div 2
             l == MaxOver(eq, a, m)
             r == MaxOver(eq, m + 1, b)
         IN  IF r > l THEN r ELSE l

\* a plausible slip: rolling(2).max() in place of expanding().max()
MaxOfLastTwo(eq, t) == MaxOver(eq, IF t > 1 THEN t - 1 ELSE 1, t)

\* equity_series.expanding().max() at t
MaxUpTo(eq, t) == MaxOver(eq, 1, t)

RECURSIVE SumNums(_, _, _)
\* the float sum of xs[a..b], by halves
SumNums(xs, a, b) ==
    IF a > b THEN Num(0)
    ELSE IF a = b THEN xs[a]
    ELSE LET m == (a + b) \div 2 IN Add(SumNums(xs, a, m), SumNums(xs, m + 1, b))

RECURSIVE MinNum(_, _, _)
\* Series.min() of xs[a..b]: the least value that is not NaN; NaN when there is none
MinNum(xs, a, b) ==
    IF a > b THEN NaN
    ELSE IF a = b THEN xs[a]
    ELSE LET m == (a + b) \div 2
             l == MinNum(xs, a, m)
             r == MinNum(xs, m + 1, b)
         IN  IF IsNaN(l) THEN r
             ELSE IF IsNaN(r) THEN l
             ELSE IF Lt(r, l) THEN r ELSE l

\* equity_series.pct_change().dropna()
DailyReturns(eq) ==
    SelectSeq([t \in 1..(Len(eq) - 1) |-> Sub(Rat(eq[t + 1], eq[t]), Num(1))],
              LAMBDA r : ~IsNaN(r))

\* Series.std() (ddof = 1) of the daily returns: NaN for one observation or an
\* infinite one, 0 when all are equal (exactly so for the returns 0.0 of a
\* constant equity), and otherwise an irrational number, held as the returns
\* it is the deviation of
StdOf(rs) ==
    IF Len(rs) < 2 \/ \E t \in 1..Len(rs) : ~IsNum(rs[t]) THEN NaN
    ELSE IF \A t \in 1..Len(rs) : rs[t] = rs[1] THEN Num(0)
    ELSE [k |-> "std", of |-> rs]

\* (daily_returns.mean() / daily_returns.std()) * np.sqrt(252) when there is a
\* return and the deviation is not 0 (NaN != 0 is true), else 0
SharpeRatio(rs) ==
    LET sd == StdOf(rs)
    IN  IF Len(rs) > 0 /\ sd # Num(0)
        THEN IF IsNaN(sd) THEN NaN ELSE [k |-> "sharpe", of |-> rs]
        ELSE Num(0)

\* a plausible slip: the first point of the curve instead of the last
FirstEquity(eq) == eq[1]

\* equity_df['equity'].iloc[-1]
FinalEquity(eq) == eq[Len(eq)]

\* the dict calculate_metrics returns, or the exception it raises
CalculateMetricsOf(curve, ledger, init, closes) ==
    IF curve = <<>> THEN EmptyMetrics
    \* pd.DataFrame([]) has no column: trades_df['type'] raises KeyError
    ELSE IF ledger = <<>> THEN RaisedMetrics("KeyError")
    ELSE
    LET eq                == [t \in 1..Len(curve) |-> curve[t].equity]
        final_equity      == FinalEquity(eq)
        total_return      == Mul(Rat(final_equity - init, init), Num(100))
        sell_trades       == SelectSells(ledger)
        profitable_trades == Len(SelectSeq(sell_trades, LAMBDA t : t.profit > 0))
        total_trades      == Len(sell_trades)
        win_rate          == IF total_trades > 0
                             THEN Mul(Rat(profitable_trades, total_trades), Num(100))
                             ELSE Num(0)
        avg_profit        == IF total_trades > 0
                             THEN Rat(SumOver([t \in 1..total_trades |-> sell_trades[t].profit],
                                              1, total_trades), total_trades)
                             ELSE Num(0)
        avg_profit_pct    == IF total_trades > 0
                             THEN DivInt(SumNums([t \in 1..total_trades |->
                                                     sell_trades[t].profit_pct],
                                                1, total_trades),
                                         total_trades)
                             ELSE Num(0)
        drawdown          == [t \in 1..Len(eq) |->
                                 Mul(Rat(eq[t] - MaxUpTo(eq, t), MaxUpTo(eq, t)), Num(100))]
        max_drawdown      == MinNum(drawdown, 1, Len(eq))
        buy_hold_return   == Mul(Rat(closes[Len(closes)] - closes[1], closes[1]), Num(100))
    IN  [status |-> "returned",
         vals |-> [key \in MetricKeys |->
            CASE key = "Initial Capital"     -> Num(init)
              [] key = "Final Equity"        -> Num(final_equity)
              [] key = "Total Return"        -> total_return
              [] key = "Total Return %"      -> total_return
              [] key = "Total Trades"        -> Num(total_trades)
              [] key = "Profitable Trades"   -> Num(profitable_trades)
              [] key = "Win Rate %"          -> win_rate
              [] key = "Average Profit"      -> avg_profit
              [] key = "Average Profit %"    -> avg_profit_pct
              [] key = "Max Drawdown %"      -> max_drawdown
              [] key = "Sharpe Ratio"        -> SharpeRatio(DailyReturns(eq))
              [] key = "Buy & Hold Return %" -> buy_hold_return
              [] key = "Alpha"               -> Sub(total_return, buy_hold_return)]]

\* what the caller holds after run_strategy and calculate_metrics
Observation == [strategy |-> strategy_name, params |-> params, trades |-> trades,
                equity_curve |-> equity_curve, metrics |-> metrics']

\* the call calculate_metrics(), made once after each call of run_strategy
CalculateMetrics ==
    /\ pc \in {"idle", "returned"}
    /\ Len(observed) < runs
    /\ metrics' = CalculateMetricsOf(equity_curve, trades, initial_capital, data.Close)
    /\ raised' = IF metrics'.status = "returned" THEN "" ELSE metrics'.status
    /\ observed' = Append(observed, Observation)
    /\ UNCHANGED <<feed, initial_capital, data, trades, equity_curve, strategy_name,
                   params, position, entry_price, shares, capital, i, buy_signal,
                   sell_signal, pc, runs>>
    /\ UNCHANGED outsideEngine

-----------------------------------------------------------------------------
(* run_strategy and calculate_metrics as functions of their inputs: what one   *)
(* engine, left alone, computes from a loaded frame d, a strategy s, overrides *)
(* p and an initial capital.                                                   *)

\* the locals and the outputs of run_strategy after its reset (lines 81-87)
WalkStart(cash) ==
    [position |-> 0, entry_price |-> 0, shares |-> 0, capital |-> cash,
     trades |-> <<>>, curve |-> <<>>, raised |-> ""]

\* one iteration of the loop (lines 90-190) on bar j
WalkStep(st, d, s, p, j) ==
    IF st.raised # "" THEN st
    ELSE
    LET price == At(d.Close, j)
        buy   == BuySignal(d, s, p, j, st.position)
        sell  == SellSignal(d, s, p, j, st.position)
    IN  IF buy /\ st.capital > 0 /\ price = 0
        THEN [st EXCEPT !.raised = "OverflowError"]
        ELSE
        LET n      == IF buy /\ st.capital > 0 THEN IntDiv(st.capital, price) ELSE 0
            traded ==
                IF buy /\ st.capital > 0
                THEN IF n > 0
                     THEN [st EXCEPT !.shares = n,
                                     !.entry_price = price,
                                     !.capital = st.capital - n * price,
                                     !.position = 1,
                                     !.trades = Append(st.trades,
                                         BuyTrade(j, price, n, st.capital - n * price))]
                     ELSE [st EXCEPT !.shares = n]
                ELSE IF sell /\ st.position = 1
                THEN [st EXCEPT !.capital = st.capital + st.shares * price,
                                !.trades = Append(st.trades,
                                    SellTrade(j, price, st.shares, st.entry_price,
                                              st.capital + st.shares * price)),
                                !.position = 0,
                                !.shares = 0]
                ELSE st
        IN  [traded EXCEPT !.curve = Append(traded.curve,
                EquityPoint(j, MarkToMarket(traded.position, traded.capital,
                                            traded.shares, price),
                            traded.position))]

RECURSIVE WalkFrom(_, _, _, _, _, _)
\* the iterations on bars a..b in order, by halves
WalkFrom(st, d, s, p, a, b) ==
    IF a > b THEN st
    ELSE IF a = b THEN WalkStep(st, d, s, p, a)
    ELSE LET m == (a + b) \div 2
         IN  WalkFrom(WalkFrom(st, d, s, p, a, m), d, s, p, m + 1, b)

\* the loop over range(1, len(self.data)) (line 89)
Walk(d, s, p, cash) == WalkFrom(WalkStart(cash), d, s, p, 1, Len(d.Close) - 1)

\* the forced close after the loop (lines 193-209)
WalkClose(st, d) ==
    IF st.raised = "" /\ ClosesAtEnd(st.position)
    THEN LET final_price == At(d.Close, Len(d.Close) - 1)
         IN  [st EXCEPT !.capital = st.capital + st.shares * final_price,
                        !.trades = Append(st.trades,
                            SellTrade(Len(d.Close) - 1, final_price, st.shares,
                                      st.entry_price,
                                      st.capital + st.shares * final_price))]
    ELSE st

-----------------------------------------------------------------------------
(* Two engine objects run side by side: two callers, each with an engine of    *)
(* its own, whose calls are interleaved bar by bar.                            *)

\* longest series handed to the engines run side by side
PairLen == 3

Engines == {1, 2}
Other(e) == 3 - e

\* the series, strategies and capital of the engines run side by side
PairSeries == {closes \in BarSeries : Len(closes) >= 2 /\ Len(closes) <= PairLen}
PairStrategies == {"MACD_CROSSOVER", "RSI_OVERSOLD"}
PairCapital == 100

\* a plausible slip: equity_curve = [] in the class body, one list for all engines
ClassLevelCurve(e) == 1

\* the list self.equity_curve of engine e: its own, made by its __init__ (line 30)
CurveOf(e) == e

\* BacktestingEngine(symbol, start, end, initial_capital): the fields of a new
\* engine, with the series its data source will return and the run its caller
\* is about to make
NewEngine(closes, s, cash) ==
    [feed |-> closes, initial_capital |-> cash, data |-> NoData, trades |-> <<>>,
     strategy_name |-> s, params |-> EmptyParams,
     position |-> 0, entry_price |-> 0, shares |-> 0, capital |-> 0, i |-> 0,
     pc |-> "idle", raised |-> "", metrics |-> NoMetrics]

\* no such engines
PairIdle == engines = <<>> /\ curves = <<>>

PairInit ==
    /\ engines \in [Engines -> {NewEngine(closes, s, PairCapital) :
                                   closes \in PairSeries, s \in PairStrategies}]
    /\ curves = [e \in Engines |-> <<>>]

\* the locals of engine e's run and the lists it appends to, as one walk state
WalkStateOf(e) ==
    [position |-> engines[e].position, entry_price |-> engines[e].entry_price,
     shares |-> engines[e].shares, capital |-> engines[e].capital,
     trades |-> engines[e].trades, curve |-> curves[CurveOf(e)],
     raised |-> engines[e].raised]

\* the walk state st stored back into engine e and its curve
Stored(e, st, fields) ==
    /\ engines' = [engines EXCEPT ![e] =
           [f \in DOMAIN engines[e] |->
               IF f \in DOMAIN fields THEN fields[f]
               ELSE IF f \in {"position", "entry_price", "shares", "capital", "trades",
                              "raised"}
               THEN st[f]
               ELSE engines[e][f]]]
    /\ curves' = [curves EXCEPT ![CurveOf(e)] = st.curve]

\* engine e's run_strategy up to the loop (lines 78-87)
RunStartOn(e) ==
    /\ engines[e].pc = "idle"
    /\ engines[e].metrics = NoMetrics
    /\ LET reset == [WalkStart(engines[e].initial_capital)
                        EXCEPT !.curve = curves[CurveOf(e)]]
       IN  Stored(e, reset, [data |-> [loaded |-> TRUE, Close |-> engines[e].feed],
                             i |-> 1, pc |-> "loop"])
    /\ UNCHANGED outsidePair

\* one iteration of engine e's loop (lines 89-190)
StepOn(e) ==
    /\ engines[e].pc = "loop"
    /\ engines[e].i < Len(engines[e].data.Close)
    /\ LET st == WalkStep(WalkStateOf(e), Frames[engines[e].data.Close],
                          engines[e].strategy_name, engines[e].params, engines[e].i)
       IN  Stored(e, st, [i |-> engines[e].i + 1])
    /\ UNCHANGED outsidePair

\* engine e's forced close and return (lines 192-211)
FinishOn(e) ==
    /\ engines[e].pc = "loop"
    /\ engines[e].i >= Len(engines[e].data.Close)
    /\ Stored(e, WalkClose(WalkStateOf(e), engines[e].data), [pc |-> "returned"])
    /\ UNCHANGED outsidePair

\* engine e's calculate_metrics (lines 213-268)
CalculateMetricsOn(e) ==
    /\ engines[e].pc = "returned"
    /\ engines[e].metrics = NoMetrics
    /\ engines' = [engines EXCEPT ![e].metrics =
           CalculateMetricsOf(curves[CurveOf(e)], engines[e].trades,
                              engines[e].initial_capital, engines[e].data.Close)]
    /\ UNCHANGED curves
    /\ UNCHANGED outsidePair

-----------------------------------------------------------------------------
(* AlertsSystem (alerts_system.py): add_alert, check_alerts, remove_alert.     *)
(* An alert is the dict add_alert builds, without its symbol and message;      *)
(* created_at is the reading of a clock that ticks at every add_alert.  The    *)
(* fields triggered_at and timestamp are left out.                             *)

\* add_alert calls made on one alerts system
MaxAdds == 3

AlertTypes == {"price", "change_pct", "volume", "rsi", "ma_cross"}
\* the alerts the callers add: a known type with two conditions, and a type
\* check_alerts does not know
AlertKinds == {<<"price", "above">>, <<"price", "equals">>, <<"news", "above">>}
\* the threshold of the alerts, and the values the market data may show
AlertValue == 10
MarketValues == {10, 20}

\* the alerts of a list of n for which the data fetch raises during one check:
\* none, or one of them
Failures(n) == {{}} \cup {{k} : k \in 1..n}

\* no call made yet; clock is the last reading of datetime.now()
NoCall == [op |-> "none", clock |-> 0]

\* AlertsSystem.__init__
AlertsInit ==
    /\ alerts = <<>>
    /\ triggered_alerts = <<>>
    /\ alert_call = NoCall

\* datetime.now() of the next add_alert: later than every created_at so far
Now == alert_call.clock + 1

\* add_alert(symbol, alert_type, condition, value): the id is the length of the
\* list plus one
AddAlert(alert_type, condition, value) ==
    LET alert == [id |-> Len(alerts) + 1, alert_type |-> alert_type,
                  condition |-> condition, value |-> value, created_at |-> Now,
                  status |-> "active", triggered |-> FALSE, triggered_value |-> -1]
    IN  /\ Now <= MaxAdds
        /\ alerts' = Append(alerts, alert)
        /\ alert_call' = [op |-> "add_alert", returned |-> alert, clock |-> Now]
        /\ UNCHANGED triggered_alerts
        /\ UNCHANGED outsideAlerts

\* the "Check condition" block (lines 77-84); abs(current - value) < 0.01 on
\* integers is equality
ConditionMet(condition, current_value, value) ==
    \/ condition = "above" /\ current_value > value
    \/ condition = "below" /\ current_value < value
    \/ condition = "equals" /\ current_value = value

\* a plausible slip: the test of line 51 without "or alert['triggered']"
SkippedWhenInactive(alert) == alert.status # "active"

\* line 51: the alert is passed over
Skipped(alert) == alert.status # "active" \/ alert.triggered

\* the alert fires in this check: it is not skipped, nothing raises while its
\* data is fetched and compared, its type is known and its condition is met
Fires(alert, current_value, failed) ==
    /\ ~Skipped(alert)
    /\ ~failed
    /\ alert.alert_type \in AlertTypes
    /\ ConditionMet(alert.condition, current_value, alert.value)

Notification(alert, current_value) ==
    [alert_id |-> alert.id, alert_type |-> alert.alert_type,
     current_value |-> current_value]

RECURSIVE Notifications(_, _, _, _)
\* the notifications of the alerts k..Len(list) that fire, in list order
Notifications(list, current_value, failing, k) ==
    IF k > Len(list) THEN <<>>
    ELSE (IF Fires(list[k], current_value, k \in failing)
          THEN <<Notification(list[k], current_value)>> ELSE <<>>)
         \o Notifications(list, current_value, failing, k + 1)

\* check_alerts(): current_value is what the market data shows, failing the
\* alerts (by place in the list) for which yf.Ticker or the comparison raises
CheckAlerts(current_value, failing) ==
    LET newly_triggered == Notifications(alerts, current_value, failing, 1)
    IN  /\ alerts' = [k \in 1..Len(alerts) |->
               IF Fires(alerts[k], current_value, k \in failing)
               THEN [alerts[k] EXCEPT !.triggered = TRUE,
                                      !.triggered_value = current_value]
               ELSE alerts[k]]
        /\ triggered_alerts' = triggered_alerts \o newly_triggered
        /\ alert_call' = [op |-> "check_alerts", returned |-> newly_triggered,
                          clock |-> alert_call.clock,
                          current_value |-> current_value, failing |-> failing]
        /\ UNCHANGED outsideAlerts

\* remove_alert(alert_id): every alert with that id goes
RemoveAlert(alert_id) ==
    /\ alerts' = SelectSeq(alerts, LAMBDA a : a.id # alert_id)
    /\ alert_call' = [op |-> "remove_alert", alert_id |-> alert_id,
                      clock |-> alert_call.clock]
    /\ UNCHANGED triggered_alerts
    /\ UNCHANGED outsideAlerts

-----------------------------------------------------------------------------
(* RealTimeDataFeed (realtime_data.py): one caller that starts the feed once   *)
(* and then stops it, the WebSocket thread and the simulation thread.  The     *)
(* threads are interleaved between their reads and writes of self.is_running;  *)
(* data_queue and delivered count the items put and handed to the callbacks.   *)

\* items put on the queue in one run of the model
MaxItems == 3
\* len(self.symbols) of the default symbol list (line 30)
DEFAULT_SYMBOLS == 3
\* the websocket_url argument: none given, or one
Urls == {"None", "ws://feed"}

\* RealTimeDataFeed.__init__
FeedInit ==
    /\ is_running = FALSE
    /\ data_queue = 0
    /\ websocket = "None"
    /\ delivered = 0
    /\ threads = [caller |-> "new", ws |-> "none", sim |-> "none", symbol |-> 0,
                  raised |-> ""]

\* self.data_queue.put(...) and self._notify_callbacks(...), lines 104-110 and
\* 195-201
PutAndNotify ==
    /\ data_queue < MaxItems
    /\ data_queue' = data_queue + 1
    /\ delivered' = delivered + 1

\* start_simulated_feed(), called by the caller
StartSimulatedFeed ==
    /\ threads.caller = "new"
    /\ is_running' = TRUE
    /\ threads' = [threads EXCEPT !.caller = "started", !.sim = "check"]
    /\ UNCHANGED <<data_queue, websocket, delivered>>
    /\ UNCHANGED outsideFeed

\* start_websocket_feed(websocket_url): without a url it starts the simulated
\* feed instead
StartWebsocketFeed(websocket_url) ==
    /\ threads.caller = "new"
    /\ is_running' = TRUE
    /\ threads' = IF websocket_url = "None"
                  THEN [threads EXCEPT !.caller = "started", !.sim = "check"]
                  ELSE [threads EXCEPT !.caller = "started", !.ws = "connecting"]
    /\ UNCHANGED <<data_queue, websocket, delivered>>
    /\ UNCHANGED outsideFeed

\* websocket_handler: the connection is made (lines 136-145)
WsConnect ==
    /\ threads.ws = "connecting"
    /\ websocket' = "open"
    /\ threads' = [threads EXCEPT !.ws = "listening"]
    /\ UNCHANGED <<is_running, data_queue, delivered>>
    /\ UNCHANGED outsideFeed

\* websocket_handler: the connection fails, and the handler falls back to
\* start_simulated_feed() (lines 162-165), which sets is_running and starts the
\* simulation thread
WsFallback ==
    /\ threads.ws = "connecting"
    /\ is_running' = TRUE
    /\ threads' = [threads EXCEPT !.ws = "done", !.sim = "check"]
    /\ UNCHANGED <<data_queue, websocket, delivered>>
    /\ UNCHANGED outsideFeed

\* websocket_handler: the test of "while self.is_running" (line 148)
WsLoop ==
    /\ threads.ws = "listening"
    /\ threads' = [threads EXCEPT !.ws = IF is_running THEN "receiving" ELSE "done"]
    /\ UNCHANGED <<is_running, data_queue, websocket, delivered>>
    /\ UNCHANGED outsideFeed

\* websocket_handler: one pass of the loop body (lines 149-160): a message for
\* a known symbol is put and delivered, or nothing arrives within the timeout
WsReceive ==
    /\ threads.ws = "receiving"
    /\ \/ PutAndNotify
       \/ UNCHANGED <<data_queue, delivered>>
    /\ threads' = [threads EXCEPT !.ws = "listening"]
    /\ UNCHANGED <<is_running, websocket>>
    /\ UNCHANGED outsideFeed

\* simulate_data: the test of "while self.is_running" (line 74)
SimLoop ==
    /\ threads.sim = "check"
    /\ threads' = IF is_running
                  THEN [threads EXCEPT !.sim = "update", !.symbol = 1]
                  ELSE [threads EXCEPT !.sim = "done"]
    /\ UNCHANGED <<is_running, data_queue, websocket, delivered>>
    /\ UNCHANGED outsideFeed

\* simulate_data: the body of the for loop for one symbol (lines 76-114): its
\* data is put and delivered, or the history is short or the fetch raises
SimUpdate ==
    /\ threads.sim = "update"
    /\ \/ PutAndNotify
       \/ UNCHANGED <<data_queue, delivered>>
    /\ threads' = IF threads.symbol < DEFAULT_SYMBOLS
                  THEN [threads EXCEPT !.symbol = threads.symbol + 1]
                  ELSE [threads EXCEPT !.sim = "sleep", !.symbol = 0]
    /\ UNCHANGED <<is_running, websocket>>
    /\ UNCHANGED outsideFeed

\* simulate_data: time.sleep(self.update_interval) (line 116)
SimSleep ==
    /\ threads.sim = "sleep"
    /\ threads' = [threads EXCEPT !.sim = "check"]
    /\ UNCHANGED <<is_running, data_queue, websocket, delivered>>
    /\ UNCHANGED outsideFeed

\* stop_feed(): is_running = False; with a websocket set, asyncio.create_task
\* is called outside any event loop and raises RuntimeError
StopFeed ==
    /\ threads.caller = "started"
    /\ is_running' = FALSE
    /\ threads' = [threads EXCEPT !.caller = "stopped",
                                  !.raised = IF websocket # "None"
                                             THEN "RuntimeError" ELSE ""]
    /\ UNCHANGED <<data_queue, websocket, delivered>>
    /\ UNCHANGED outsideFeed

-----------------------------------------------------------------------------
\* a fresh engine (__init__) and the series its data source will return
InitWith(feeds, capitals) ==
    /\ feed \in feeds
    /\ initial_capital \in capitals
    /\ data = NoData
    /\ trades = <<>>
    /\ equity_curve = <<>>
    /\ strategy_name = ""
    /\ params = EmptyParams
    /\ position = 0
    /\ entry_price = 0
    /\ shares = 0
    /\ capital = 0
    /\ i = 0
    /\ buy_signal = FALSE
    /\ sell_signal = FALSE
    /\ pc = "idle"
    /\ raised = ""
    /\ metrics = NoMetrics
    /\ runs = 0
    /\ observed = <<>>

\* an engine nobody runs
EngineIdle == InitWith({<<>>}, {DEFAULT_CAPITAL})

Init == InitWith(Feeds, Capitals) /\ PairIdle /\ AlertsInit /\ FeedInit

Next ==
    \/ \E s \in StrategyNames, p \in ParamChoices : RunStart(s, p)
    \/ Step
    \/ Finish
    \/ CalculateMetrics

Spec == Init /\ [][Next]_vars

\* the scenario runs: a rising series with a positive capital, the two-bar
\* jump with the default capital, and the crossing series with a positive capital
InitScenario ==
    /\ \/ InitWith(RisingSeries, {c \in Capitals : c > 0})
       \/ InitWith({JumpSeries}, {DEFAULT_CAPITAL})
       \/ InitWith({CrossingSeries}, {c \in Capitals : c > 0})
    /\ PairIdle /\ AlertsInit /\ FeedInit

NextScenario ==
    \/ \E s \in StrategyNames, p \in ScenarioParams : RunStart(s, p)
    \/ Step
    \/ Finish
    \/ CalculateMetrics

SpecScenario == InitScenario /\ [][NextScenario]_vars

\* two engines run side by side, their steps interleaved in any order
InitPair == EngineIdle /\ PairInit /\ AlertsInit /\ FeedInit

NextPair ==
    \E e \in Engines :
        \/ RunStartOn(e)
        \/ StepOn(e)
        \/ FinishOn(e)
        \/ CalculateMetricsOn(e)

SpecPair == InitPair /\ [][NextPair]_vars

\* the alerts system under any sequence of its calls
InitAlerts == EngineIdle /\ PairIdle /\ AlertsInit /\ FeedInit

NextAlerts ==
    \/ \E kind \in AlertKinds : AddAlert(kind[1], kind[2], AlertValue)
    \/ \E current_value \in MarketValues, failing \in Failures(Len(alerts)) :
           CheckAlerts(current_value, failing)
    \/ \E alert_id \in 1..MaxAdds : RemoveAlert(alert_id)

SpecAlerts == InitAlerts /\ [][NextAlerts]_vars

\* the data feed: its caller and its threads, interleaved in any order
InitFeed == EngineIdle /\ PairIdle /\ AlertsInit /\ FeedInit

NextFeed ==
    \/ StartSimulatedFeed
    \/ \E websocket_url \in Urls : StartWebsocketFeed(websocket_url)
    \/ WsConnect
    \/ WsFallback
    \/ WsLoop
    \/ WsReceive
    \/ SimLoop
    \/ SimUpdate
    \/ SimSleep
    \/ StopFeed

SpecFeed == InitFeed /\ [][NextFeed]_vars

-----------------------------------------------------------------------------
(* The claims *)

Last(seq) == seq[Len(seq)]
CountType(ledger, ty) == Len(SelectSeq(ledger, LAMBDA t : t.type = ty))
\* a run has returned and calculate_metrics has been called after it
MetricsTaken == pc = "returned" /\ Len(observed) = runs

\* C1: after a run the position recorded in the last equity-curve point is FLAT
\* (0), also when the open position was closed by the forced liquidation.
C1_RunEndsFlat ==
    (pc = "returned" /\ equity_curve # <<>>) => Last(equity_curve).position = 0

\* C2: after any run the ledger holds as many BUY trades as SELL trades, the
\* forced final close included.
C2_BuysEqualSells ==
    pc = "returned" => CountType(trades, "BUY") = CountType(trades, "SELL")

\* a returned run whose BUY filled on the final bar and was closed by force there
C2_BuyOnFinalBar ==
    /\ pc = "returned"
    /\ Len(trades) >= 2
    /\ trades[Len(trades) - 1].type = "BUY"
    /\ trades[Len(trades) - 1].date = Len(data.Close) - 1
    /\ Last(trades).type = "SELL"
    /\ Last(trades).date = Len(data.Close) - 1

\* C3: after a run over N bars the equity curve holds exactly N points.
C3_OnePointPerBar ==
    (pc = "returned" /\ runs = 1) => Len(equity_curve) = Len(data.Close)

\* C4: two runs with the same bar series, strategy and parameters on the same
\* engine, each followed by calculate_metrics, give the same ledger, the same
\* equity curve and the same metrics.
C4_Idempotent ==
    Len(observed) >= 2 =>
        /\ observed[1].strategy = observed[2].strategy
        /\ observed[1].trades = observed[2].trades
        /\ observed[1].equity_curve = observed[2].equity_curve
        /\ observed[1].metrics = observed[2].metrics

\* C5: in every reachable ledger the trades alternate BUY, SELL, BUY, SELL, ...
\* starting with a BUY.
C5_Alternation ==
    \A t \in 1..Len(trades) : trades[t].type = IF t % 2 = 1 THEN "BUY" ELSE "SELL"

\* a level-triggered strategy whose BUY level still holds on the bar after its
\* BUY filled: the position is long and no second BUY was appended
C5_LevelHeldWhileLong ==
    /\ strategy_name \in {"RSI_OVERSOLD", "BOLLINGER_BANDS"}
    /\ pc = "loop"
    /\ i >= 3
    /\ trades # <<>>
    /\ Last(trades).type = "BUY"
    /\ Last(trades).date = i - 2
    /\ position = 1
    /\ BuyLevel(Frames[data.Close], strategy_name, params, i - 1)

\* C6: with zero SELL trades in the ledger calculate_metrics returns normally
\* with Win Rate % = 0, Average Profit = 0 and Total Trades = 0.
C6_ZeroSellMetrics ==
    (MetricsTaken /\ CountType(trades, "SELL") = 0) =>
        /\ metrics.status = "returned"
        /\ {"Win Rate %", "Average Profit", "Total Trades"} \subseteq DOMAIN metrics.vals
        /\ metrics.vals["Win Rate %"] = Num(0)
        /\ metrics.vals["Average Profit"] = Num(0)
        /\ metrics.vals["Total Trades"] = Num(0)

\* C7: no entry of the returned metrics is NaN; the Sharpe Ratio is 0 whenever
\* the deviation of the per-bar equity changes is 0 or not defined.
C7_NoNaNMetric ==
    (MetricsTaken /\ metrics.status = "returned") =>
        \A key \in DOMAIN metrics.vals : ~IsNaN(metrics.vals[key])

\* the largest window a strategy's indicators are computed over
MinWindow(s) ==
    CASE s = "MA_CROSSOVER"    -> MA_LONG_WINDOW
      [] s = "RSI_OVERSOLD"    -> RSI_PERIOD
      [] s = "MACD_CROSSOVER"  -> MACD_SLOW
      [] s = "BOLLINGER_BANDS" -> BB_WINDOW

\* C8: for every strategy a series shorter than the strategy's window gives zero
\* trades, and calculate_metrics on that run reports Total Return % = 0.
C8_ShortSeriesZeroReturn ==
    (/\ MetricsTaken
     /\ runs = 1
     /\ initial_capital > 0
     /\ strategy_name \in Strategies
     /\ Len(data.Close) < MinWindow(strategy_name)) =>
        /\ trades = <<>>
        /\ metrics.status = "returned"
        /\ "Total Return %" \in DOMAIN metrics.vals
        /\ metrics.vals["Total Return %"] = Num(0)

\* C9: run_strategy with an unknown strategy name surfaces an error before any
\* bar is processed and records no equity point.
C9_UnknownStrategyRejected ==
    (runs > 0 /\ initial_capital > 0 /\ strategy_name \notin Strategies) =>
        /\ pc # "loop"
        /\ raised # ""
        /\ equity_curve = <<>>

\* C10: an engine with a non-positive initial capital surfaces an error at the
\* start of run_strategy at the latest and produces no equity curve.
C10_NonPositiveCapitalRejected ==
    (runs > 0 /\ strategy_name \in Strategies /\ initial_capital <= 0) =>
        /\ pc # "loop"
        /\ raised # ""
        /\ equity_curve = <<>>

\* a series the spec calls malformed: empty, or holding a non-positive close
Malformed(closes) == closes = <<>> \/ \E j \in 1..Len(closes) : closes[j] <= 0

\* C11: a malformed bar series (empty, or with a non-positive close) is rejected
\* before any bar is processed: the run never enters its walk over the bars, and
\* the ledger and the equity curve hold no entry from it.
C11_MalformedRejected ==
    (runs > 0 /\ strategy_name \in Strategies /\ initial_capital > 0 /\ Malformed(feed)) =>
        /\ pc \notin {"loop", "returned"}
        /\ trades = <<>>
        /\ equity_curve = <<>>

\* C12: on a BUY signal while FLAT (cash not negative, close positive) the share
\* count is floor(cash / close); when it is 0 the bar leaves cash, position and
\* ledger unchanged and raises nothing; otherwise cash falls by shares x close,
\* a BUY trade with that price, share count and resulting cash is appended, and
\* the state becomes LONG with entry_price = that close.
C12_BuyFill ==
    [][(/\ pc = "loop"
        /\ i < Len(data.Close)
        /\ position = 0
        /\ buy_signal'
        /\ capital >= 0
        /\ At(data.Close, i) > 0) =>
            LET price == At(data.Close, i)
                n     == capital \div price
            IN  IF n = 0
                THEN /\ capital' = capital
                     /\ position' = 0
                     /\ trades' = trades
                     /\ raised' = ""
                     /\ pc' = "loop"
                ELSE /\ capital' = capital - n * price
                     /\ trades' = Append(trades,
                            [date |-> i, type |-> "BUY", price |-> price, shares |-> n,
                             value |-> n * price, capital |-> capital - n * price])
                     /\ position' = 1
                     /\ shares' = n
                     /\ entry_price' = price]_vars

\* a BUY signal fired while FLAT on a bar whose close is above the whole cash:
\* no share was bought, the ledger is empty and the cash is untouched
C12_SignalWithoutFill ==
    /\ pc = "loop"
    /\ i > 1
    /\ buy_signal
    /\ position = 0
    /\ trades = <<>>
    /\ capital = initial_capital
    /\ capital > 0
    /\ At(data.Close, i - 1) > capital

\* C13: every SELL trade, signalled or forced, records proceeds = shares x fill
\* price and profit = proceeds - shares x entry price with the shares and entry
\* price of the BUY right before it in the ledger; cash grows by exactly the
\* proceeds, and the share count is cleared.
C13_SellRecords ==
    \A t \in 1..Len(trades) :
        trades[t].type = "SELL" =>
            /\ t > 1
            /\ trades[t - 1].type = "BUY"
            /\ trades[t].shares = trades[t - 1].shares
            /\ trades[t].value = trades[t].shares * trades[t].price
            /\ trades[t].profit = trades[t].value - trades[t - 1].shares * trades[t - 1].price
            /\ trades[t].capital = trades[t - 1].capital + trades[t].value
            /\ (t = Len(trades) /\ pc = "returned") => (shares = 0 /\ capital = trades[t].capital)

\* the index of the last trade dated at or before bar d; 0 when there is none
LastTradeUpTo(d) ==
    LET at == {t \in 1..Len(trades) : trades[t].date <= d}
    IN  IF at = {} THEN 0 ELSE CHOOSE t \in at : \A u \in at : u <= t

\* C14: every equity point recorded for a bar equals cash + shares x that bar's
\* close when the position after the bar's execution is LONG and cash alone when
\* it is FLAT, and its position field is the state used for the valuation.
C14_MarkToMarket ==
    pc = "loop" =>
        \A d \in 1..(i - 1) :
            LET pt == equity_curve[Len(equity_curve) - (i - 1) + d]
                t  == LastTradeUpTo(d)
            IN  /\ pt.date = d
                /\ IF t = 0
                   THEN pt.position = 0 /\ pt.equity = initial_capital
                   ELSE IF trades[t].type = "BUY"
                   THEN /\ pt.position = 1
                        /\ pt.equity = trades[t].capital + trades[t].shares * At(data.Close, d)
                   ELSE pt.position = 0 /\ pt.equity = trades[t].capital
                /\ (d = i - 1) =>
                       /\ pt.position = position
                       /\ pt.equity = IF position = 1
                                      THEN capital + shares * At(data.Close, d)
                                      ELSE capital

\* a position held over a later bar with cash left over: the last point values
\* the shares at a close that is not the entry price
C14_HeldAtNewClose ==
    /\ pc = "loop"
    /\ i > 2
    /\ position = 1
    /\ capital > 0
    /\ shares > 0
    /\ Last(trades).date < i - 1
    /\ At(data.Close, i - 1) # entry_price
    /\ Last(equity_curve).equity = capital + shares * At(data.Close, i - 1)

\* C15: the final equity calculate_metrics uses for Total Return % is the cash
\* balance after the last trade of the ledger (the capital of the forced-close
\* SELL when the walk ended LONG).
C15_FinalEquityRealized ==
    (MetricsTaken /\ metrics.status = "returned" /\ trades # <<>>) =>
        /\ metrics.vals["Final Equity"] = Num(Last(trades).capital)
        /\ metrics.vals["Total Return %"] =
               Mul(Rat(Last(trades).capital - initial_capital, initial_capital), Num(100))

\* metrics taken after a walk that ended LONG at a close other than the entry
\* price and was closed by force
C15_ForcedCloseRealized ==
    /\ MetricsTaken
    /\ metrics.status = "returned"
    /\ position = 1
    /\ trades # <<>>
    /\ Last(trades).type = "SELL"
    /\ Last(trades).profit # 0
    /\ Last(trades).capital # initial_capital

\* the equity column of the curve calculate_metrics reads
EquityColumn == [t \in 1..Len(equity_curve) |-> equity_curve[t].equity]

\* C16: the running maximum of the drawdown computation starts at
\* initial_capital, never decreases, is never below the equity of its bar nor
\* below initial_capital, and Max Drawdown % is never positive.
C16_RunningMax ==
    MetricsTaken =>
        /\ \A t \in 1..Len(EquityColumn) :
               /\ MaxUpTo(EquityColumn, t) >= initial_capital
               /\ MaxUpTo(EquityColumn, t) >= EquityColumn[t]
               /\ (t = 1) => MaxUpTo(EquityColumn, t) = initial_capital
               /\ (t > 1) => MaxUpTo(EquityColumn, t) >= MaxUpTo(EquityColumn, t - 1)
        /\ (metrics.status = "returned" /\ "Max Drawdown %" \in DOMAIN metrics.vals) =>
               ~Gt(metrics.vals["Max Drawdown %"], Num(0))

\* metrics taken over a curve that dips below the initial capital and recovers
\* above it: the drawdown is negative
C16_DipBelowStart ==
    /\ MetricsTaken
    /\ metrics.status = "returned"
    /\ \E t \in 1..Len(EquityColumn) : EquityColumn[t] < initial_capital
    /\ \E t \in 1..Len(EquityColumn) : EquityColumn[t] > initial_capital
    /\ Lt(metrics.vals["Max Drawdown %"], Num(0))

StrictlyIncreasing(closes) == \A j \in 1..(Len(closes) - 1) : closes[j] < closes[j + 1]

\* the first bar whose 20-bar average is above its 50-bar average
FirstBarShortAbove(d) ==
    LET above == {j \in 0..(Len(d.Close) - 1) : Gt(At(d.MA20, j), At(d.MA50, j))}
    IN  CHOOSE j \in above : \A k \in above : j <= k

\* C17: scenario A: MA_CROSSOVER with short 20 / long 50 on a strictly increasing
\* series of at least 60 closes gives exactly one BUY, at the first bar where the
\* 20-bar average exceeds the 50-bar average, and a forced SELL on the final bar
\* with a positive realized profit.
C17_ScenarioA ==
    (/\ pc = "returned"
     /\ runs = 1
     /\ strategy_name = "MA_CROSSOVER"
     /\ StrictlyIncreasing(data.Close)
     /\ Len(data.Close) >= ScenarioLen
     /\ initial_capital >= At(data.Close, FirstBarShortAbove(Frames[data.Close]))) =>
        /\ Len(trades) = 2
        /\ trades[1].type = "BUY"
        /\ trades[1].date = FirstBarShortAbove(Frames[data.Close])
        /\ trades[2].type = "SELL"
        /\ trades[2].date = Len(data.Close) - 1
        /\ trades[2].profit > 0

\* C17 as amended: MA_CROSSOVER with short 20 / long 50 on a strictly increasing
\* series gives no trade at all: the 20-bar average is above the 50-bar average
\* on every bar that has both, so no bar sees it cross from <= to >.
C17_RisingNoTrade ==
    (strategy_name = "MA_CROSSOVER" /\ data.loaded /\ StrictlyIncreasing(data.Close)) =>
        /\ ~buy_signal
        /\ trades = <<>>
        /\ \A j \in 0..(Len(data.Close) - 1) :
               IsNum(At(Frames[data.Close].MA50, j)) =>
                   Gt(At(Frames[data.Close].MA20, j), At(Frames[data.Close].MA50, j))

\* an MA_CROSSOVER run over a rising series of the scenario's length, with cash
\* for a share at the first bar that has both averages, has returned without a trade
C17_RisingWalked ==
    /\ strategy_name = "MA_CROSSOVER"
    /\ pc = "returned"
    /\ StrictlyIncreasing(data.Close)
    /\ Len(data.Close) >= ScenarioLen
    /\ initial_capital >= At(data.Close, FirstBarShortAbove(Frames[data.Close]))
    /\ Len(equity_curve) >= Len(data.Close) - 1
    /\ trades = <<>>

\* C18: scenario C: with initial_capital = 100000 and the closes 100 then 110, a
\* run whose BUY signal fires buys floor(100000 / 100) = 1000 shares on bar 0,
\* sells them by force on bar 1 at 110 with realized profit 10000, and
\* Total Return % is 10.
C18_ScenarioC ==
    (/\ MetricsTaken
     /\ runs = 1
     /\ initial_capital = DEFAULT_CAPITAL
     /\ data.Close = JumpSeries
     /\ trades # <<>>) =>
        /\ Len(trades) = 2
        /\ trades[1].type = "BUY"
        /\ trades[1].date = 0
        /\ trades[1].price = JumpSeries[1]
        /\ trades[1].shares = DEFAULT_CAPITAL \div JumpSeries[1]
        /\ trades[2].type = "SELL"
        /\ trades[2].date = 1
        /\ trades[2].price = JumpSeries[2]
        /\ trades[2].profit = (DEFAULT_CAPITAL \div JumpSeries[1]) * (JumpSeries[2] - JumpSeries[1])
        /\ metrics.status = "returned"
        /\ metrics.vals["Total Return %"] = Num(10)

Constant(closes) == \A j \in 1..Len(closes) : closes[j] = closes[1]

\* C19: scenario B: RSI_OVERSOLD on a constant-price series never fires its BUY
\* branch; the run records zero trades.
C19_FlatSeriesNoTrade ==
    (strategy_name = "RSI_OVERSOLD" /\ data.loaded /\ Constant(data.Close)) =>
        /\ ~buy_signal
        /\ trades = <<>>

\* an RSI_OVERSOLD run over a constant series longer than the RSI window, with
\* cash for a share, has returned with an empty ledger
C19_FlatSeriesWalked ==
    /\ strategy_name = "RSI_OVERSOLD"
    /\ pc = "returned"
    /\ Constant(data.Close)
    /\ Len(data.Close) > RSI_PERIOD
    /\ initial_capital >= data.Close[1]
    /\ Len(equity_curve) >= Len(data.Close) - 1
    /\ trades = <<>>

\* the indicator values the strategy reads on bar j
Reads(d, s, p, j) ==
    IF s = "MA_CROSSOVER" THEN
        LET shortcol == IF Get(p, "short_ma", MA_SHORT_WINDOW) = MA_SHORT_WINDOW
                        THEN d.MA20 ELSE d.MA50
        IN  {At(shortcol, j - 1), At(shortcol, j), At(d.MA50, j - 1), At(d.MA50, j)}
    ELSE IF s = "RSI_OVERSOLD" THEN {At(d.RSI, j)}
    ELSE IF s = "MACD_CROSSOVER" THEN
        {At(d.MACD, j - 1), At(d.MACD, j), At(d.MACD_signal, j - 1), At(d.MACD_signal, j)}
    ELSE IF s = "BOLLINGER_BANDS" THEN
        {At(d.BB_lower, j).mid, At(d.BB_lower, j).var,
         At(d.BB_upper, j).mid, At(d.BB_upper, j).var}
    ELSE {}

\* some value the strategy reads on bar j is 'not available'
NotAvailable(d, s, p, j) == \E v \in Reads(d, s, p, j) : IsNaN(v)

\* C20: on a bar where an indicator value the strategy reads (of the bar, or of
\* the bar before for the crossover strategies) is not available, the signal is
\* NONE and no trade is appended for the bar; and while no trade has occurred
\* every equity point of the run equals the initial capital.
C20_WarmUpNoSignal ==
    /\ (/\ pc = "loop"
        /\ i > 1
        /\ NotAvailable(Frames[data.Close], strategy_name, params, i - 1)) =>
            /\ ~buy_signal
            /\ ~sell_signal
            /\ trades # <<>> => Last(trades).date < i - 1
    /\ (pc = "loop" /\ trades = <<>>) =>
            \A d \in 1..(i - 1) :
                equity_curve[Len(equity_curve) - (i - 1) + d].equity = initial_capital

\* the MA_CROSSOVER walk has passed the first bar on which both averages have a
\* value while the long average of the bar before has none
C20_FirstLongAverage ==
    /\ strategy_name = "MA_CROSSOVER"
    /\ pc = "loop"
    /\ i = MA_LONG_WINDOW
    /\ IsNum(At(Frames[data.Close].MA50, i - 1))
    /\ IsNaN(At(Frames[data.Close].MA50, i - 2))
    /\ ~buy_signal
    /\ trades = <<>>
    /\ Last(equity_curve).equity = initial_capital

\* the average loss of the period bars ending at bar j (1-based) is exactly 0
ZeroLoss(closes, j) == SumOver(LossRaw(closes), j - RSI_PERIOD + 1, j) = 0

\* C24: RSI zero-loss rule: at every bar past the warm-up where the average loss
\* is exactly 0, also when the average gain is 0 too, _calculate_rsi yields 100,
\* never an undefined value.
C24_ZeroLossGives100 ==
    data.loaded =>
        \A j \in RSI_PERIOD..Len(data.Close) :
            ZeroLoss(data.Close, j) => Frames[data.Close].RSI[j] = Num(100)

\* the closes' sum and sum of squares over the BB_WINDOW bars ending at bar j
WindowSum(closes, j) == SumOver(closes, j - BB_WINDOW + 1, j)
WindowSquares(closes, j) ==
    SumOver([m \in 1..Len(closes) |-> closes[m] * closes[m]], j - BB_WINDOW + 1, j)
\* the population variance of that window: divided by n, not by n - 1
PopulationVar(closes, j) ==
    Rat(BB_WINDOW * WindowSquares(closes, j) - WindowSum(closes, j) * WindowSum(closes, j),
        BB_WINDOW * BB_WINDOW)

\* C25: the Bollinger width and the Sharpe Ratio use the population variance
\* (divide by n, not by n - 1): the bands are the mean +/- 2 population standard
\* deviations, and the deviation of a single daily return is 0, which makes the
\* Sharpe Ratio 0.
C25_PopulationVariance ==
    /\ data.loaded =>
          \A j \in BB_WINDOW..Len(data.Close) :
              /\ Frames[data.Close].BB_upper[j].var = PopulationVar(data.Close, j)
              /\ Frames[data.Close].BB_lower[j].var = PopulationVar(data.Close, j)
    /\ (MetricsTaken /\ metrics.status = "returned" /\ Len(equity_curve) = 2
          /\ equity_curve[1].equity > 0) =>
          metrics.vals["Sharpe Ratio"] = Num(0)

\* a run on valid inputs: a positive initial capital and positive closes
ValidRun ==
    /\ pc \in {"loop", "returned"}
    /\ initial_capital > 0
    /\ \A j \in 1..Len(data.Close) : data.Close[j] > 0

\* C26: in every reachable state of a run with a positive initial capital and
\* positive closes the cash is non-negative; while LONG the share count is
\* positive and the cash is less than the entry price; while FLAT the share
\* count is 0 after any SELL.
C26_CashAndShares ==
    ValidRun =>
        /\ capital >= 0
        /\ position = 1 => (shares > 0 /\ capital < entry_price)
        /\ (position = 0 /\ trades # <<>> /\ Last(trades).type = "SELL") => shares = 0

\* the same, for the states of the walk over the bars alone
C26_DuringWalk ==
    (ValidRun /\ pc = "loop") =>
        /\ capital >= 0
        /\ position = 1 => (shares > 0 /\ capital < entry_price)
        /\ (position = 0 /\ trades # <<>> /\ Last(trades).type = "SELL") => shares = 0

\* the realized profit of the SELL trades of a ledger, summed
RealizedProfit(ledger) ==
    LET sells == SelectSells(ledger)
    IN  SumOver([t \in 1..Len(sells) |-> sells[t].profit], 1, Len(sells))

\* C27: after any run the final cash minus the initial capital equals the sum of
\* the realized profit over the SELL trades of the ledger, and the capital field
\* of each SELL equals the capital field of its paired BUY plus the proceeds.
C27_ProfitConserved ==
    pc = "returned" =>
        /\ capital - initial_capital = RealizedProfit(trades)
        /\ \A t \in 1..Len(trades) :
               trades[t].type = "SELL" =>
                   /\ t > 1
                   /\ trades[t - 1].type = "BUY"
                   /\ trades[t].capital = trades[t - 1].capital + trades[t].value

\* a returned run with two round trips, the second closed by force, and a
\* realized profit that is not 0
C27_TwoRoundTrips ==
    /\ pc = "returned"
    /\ CountType(trades, "SELL") >= 2
    /\ position = 1
    /\ RealizedProfit(trades) # 0
    /\ Last(trades).profit # 0
    /\ capital # initial_capital

\* the short average crosses the long one upwards on bar j: at or below it on
\* the bar before, above it on bar j
GoldenCross(short, long, j) ==
    Le(At(short, j - 1), At(long, j - 1)) /\ Gt(At(short, j), At(long, j))
\* the short average crosses the long one downwards on bar j
DeathCross(short, long, j) ==
    Ge(At(short, j - 1), At(long, j - 1)) /\ Lt(At(short, j), At(long, j))

\* C23: the overrides short_ma and long_ma select the windows of the two moving
\* averages of MA_CROSSOVER: for every pair short_ma < long_ma the crossings the
\* strategy acts on are those of the short_ma-bar average of the closes against
\* the long_ma-bar average.
C23_OverridesSelectWindows ==
    (strategy_name = "MA_CROSSOVER" /\ pc = "loop") =>
        LET short_ma == Get(params, "short_ma", MA_SHORT_WINDOW)
            long_ma  == Get(params, "long_ma", MA_LONG_WINDOW)
            short    == RollingMean(data.Close, short_ma)
            long     == RollingMean(data.Close, long_ma)
        IN  short_ma < long_ma =>
                \A j \in 1..(Len(data.Close) - 1) :
                    /\ BuyLevel(Frames[data.Close], strategy_name, params, j)
                           = GoldenCross(short, long, j)
                    /\ SellLevel(Frames[data.Close], strategy_name, params, j)
                           = DeathCross(short, long, j)

\* the bars 0..n-1 of the loaded series
BarsUpTo(n) == SubSeq(data.Close, 1, n)

\* C21: no look-ahead.  The decision and the fill at a bar, and the equity
\* point recorded for it, are those the same iteration makes on the series that
\* ends at that bar, whose indicator frame is built from the bars up to it
\* alone; so two series that agree up to a bar give, bar after bar, the same
\* trades and equity points up to it.
C21_NoLookAhead ==
    [][(pc = "loop" /\ i < Len(data.Close)) =>
        LET before == [position |-> position, entry_price |-> entry_price,
                       shares |-> shares, capital |-> capital, trades |-> trades,
                       curve |-> equity_curve, raised |-> ""]
            after  == WalkStep(before, PrefixFrames[BarsUpTo(i + 1)], strategy_name,
                               params, i)
        IN  IF after.raised # ""
            THEN raised' = after.raised /\ trades' = trades /\ equity_curve' = equity_curve
            ELSE /\ i' = i + 1
                 /\ [position |-> position', entry_price |-> entry_price',
                     shares |-> shares', capital |-> capital', trades |-> trades',
                     curve |-> equity_curve', raised |-> raised'] = after]_vars

\* a trade has filled on the newest bar walked, and the series goes on after it
\* with a different close
C21_FillBeforeTheEnd ==
    /\ pc = "loop"
    /\ i > 1
    /\ i < Len(data.Close)
    /\ Len(trades) >= 2
    /\ Last(trades).date = i - 1
    /\ At(data.Close, i) # At(data.Close, i - 1)

\* what engine e computes when it runs alone, from its own inputs: the walk up
\* to the bar it has reached, then the forced close, then the metrics
AloneWalk(e) ==
    WalkFrom(WalkStart(engines[e].initial_capital), Frames[engines[e].feed],
             engines[e].strategy_name, engines[e].params, 1, engines[e].i - 1)
AloneClosed(e) == WalkClose(AloneWalk(e), Frames[engines[e].feed])

\* every engine holds what it would hold had it run alone
C22_AsAlone ==
    \A e \in Engines :
        LET g == engines[e]
        IN  /\ g.pc = "loop" =>
                  /\ g.trades = AloneWalk(e).trades
                  /\ curves[CurveOf(e)] = AloneWalk(e).curve
                  /\ g.position = AloneWalk(e).position
                  /\ g.capital = AloneWalk(e).capital
            /\ g.pc = "returned" =>
                  /\ g.trades = AloneClosed(e).trades
                  /\ curves[CurveOf(e)] = AloneClosed(e).curve
                  /\ g.metrics # NoMetrics =>
                         g.metrics = CalculateMetricsOf(AloneClosed(e).curve,
                                         AloneClosed(e).trades, g.initial_capital, g.feed)

\* a step of one engine leaves the other engine's fields and curve as they were
C22_OwnStateOnly ==
    \A e \in Engines :
        engines'[e] # engines[e] =>
            /\ engines'[Other(e)] = engines[Other(e)]
            /\ curves'[CurveOf(Other(e))] = curves[CurveOf(Other(e))]

\* C22: two runs on separate engine objects, their bar steps interleaved in any
\* order, each produce the ledger, the equity curve and the metrics they would
\* produce alone, and no step of one writes the position, the ledger or the
\* equity curve of the other.
C22_Isolation == []C22_AsAlone /\ [][C22_OwnStateOnly]_vars

\* both engines are in the middle of their walks, each with a trade filled, over
\* different series
C22_BothMidWalk ==
    /\ engines # <<>>
    /\ \A e \in Engines :
           /\ engines[e].pc = "loop"
           /\ engines[e].i = 2
           /\ engines[e].trades # <<>>
           /\ Len(curves[e]) = 1
    /\ engines[1].feed # engines[2].feed

\* C29: after any sequence of add_alert and remove_alert calls the ids of the
\* stored alerts are pairwise distinct, so remove_alert(id) removes exactly the
\* one alert add_alert returned with that id.
C29_DistinctIds ==
    \A k \in 1..Len(alerts) : \A l \in 1..Len(alerts) :
        k # l => alerts[k].id # alerts[l].id

\* the step is a check_alerts call
IsCheck == alert_call'.op = "check_alerts" /\ Len(alerts') = Len(alerts)

\* the places of the alerts that go from not triggered to triggered in the step
NewlyTriggered == {k \in 1..Len(alerts) : ~alerts[k].triggered /\ alerts'[k].triggered}

\* the place in the list of the alert the n-th notification of the call is for
RECURSIVE PlaceOfNth(_, _)
PlaceOfNth(S, n) ==
    LET least == CHOOSE k \in S : \A l \in S : k <= l
    IN  IF n = 1 THEN least ELSE PlaceOfNth(S \ {least}, n - 1)

\* C28: over any sequence of add_alert and check_alerts calls each alert
\* triggers at most once: a triggered alert is skipped by every later
\* check_alerts; check_alerts returns exactly the notifications it appended to
\* triggered_alerts in that call, one for each alert it triggered; and an
\* exception while one alert is checked leaves that alert active and does not
\* stop the check of the remaining alerts.
C28_TriggerOnce ==
    [][IsCheck =>
        LET returned == alert_call'.returned
            failing  == alert_call'.failing
            current  == alert_call'.current_value
        IN  /\ \A k \in 1..Len(alerts) :
                  /\ alerts[k].triggered => alerts'[k] = alerts[k]
                  /\ k \in failing => alerts'[k] = alerts[k]
                  /\ (/\ k \notin failing
                      /\ alerts[k].status = "active"
                      /\ ~alerts[k].triggered
                      /\ alerts[k].alert_type \in AlertTypes
                      /\ ConditionMet(alerts[k].condition, current, alerts[k].value))
                         => alerts'[k].triggered
                  /\ alerts'[k].id = alerts[k].id
                  /\ alerts'[k].status = alerts[k].status
            /\ triggered_alerts' = triggered_alerts \o returned
            /\ Len(returned) = Cardinality(NewlyTriggered)
            /\ \A n \in 1..Len(returned) :
                  /\ returned[n].alert_id = alerts[PlaceOfNth(NewlyTriggered, n)].id
                  /\ returned[n].current_value = current]_vars

\* a check in which the first alert raised and a later one triggered, made while
\* an alert triggered by an earlier check was still in the list
C28_RaisedThenTriggered ==
    /\ alert_call.op = "check_alerts"
    /\ Len(alerts) = 3
    /\ 1 \in alert_call.failing
    /\ ~alerts[1].triggered
    /\ alerts[1].status = "active"
    /\ ConditionMet(alerts[1].condition, alert_call.current_value, alerts[1].value)
    /\ alerts[1].alert_type \in AlertTypes
    /\ alerts[2].triggered
    /\ Len(alert_call.returned) = 1
    /\ alert_call.returned[1].alert_id = alerts[3].id
    /\ Len(triggered_alerts) = 2

\* C30: once stop_feed has been called, in every interleaving with the
\* simulated-feed thread and the WebSocket thread (a connection that fails and
\* falls back to the simulated feed included), the feed stops and stays stopped:
\* is_running remains False.
C30_StaysStopped == threads.caller = "stopped" => ~is_running

=============================================================================
